---- MODULE Spec2Model ----
(***************************************************************************)
(* A model of the rbtc elliptic-curve arithmetic stack: field elements     *)
(* (src/ecc/field_element.rs, src/ecc/abstractions.rs), scalars            *)
(* (src/ecc/scalar.rs), curve points (src/ecc/point/point.rs) and the      *)
(* Scalar * point loop of the secp256k1 specialization                     *)
(* (src/ecc/point/s256_point.rs).                                          *)
(*                                                                         *)
(* The library is a set of pure functions over immutable values.  The      *)
(* state of the model is what a caller holds: the operands, the last call  *)
(* it made and what that call returned.  A call returns an outcome         *)
(* [tag, val]: tag "Ok" with the value in val, one of the three error      *)
(* kinds of FieldElementError, "Panic" when the call aborts, or "Diverge"  *)
(* when it never returns.                                                  *)
(***************************************************************************)
EXTENDS Integers, Sequences, FiniteSets, TLC

VARIABLES
    lhs,      \* field element held by the caller, left operand
    rhs,      \* field element held by the caller, right operand
    p1,       \* point held by the caller, left operand
    p2,       \* point held by the caller, right operand
    coef,     \* Scalar * point loop: the bits of the multiplier still to do
    current,  \* Scalar * point loop: the running double
    result,   \* Scalar * point loop: the running sum
    op,       \* name of the last call
    arg,      \* arguments of the last call (num, prime / exponent / n / a, b, x, y)
    ret       \* outcome of the last call

vars == <<lhs, rhs, p1, p2, coef, current, result, op, arg, ret>>
fieldHeld == <<lhs, rhs>>
pointHeld == <<p1, p2>>
loopVars == <<coef, current, result>>

(***************************************************************************)
(* Bounds of the model.                                                    *)
(***************************************************************************)
\* largest modulus of the field elements the caller starts with
MaxModulus == 5
\* width of the machine integer standing for i64 (scaled down: TLC integers
\* are 32 bits wide); only its two extreme values matter
IntBits == 5
\* largest exponent given to pow_mod, and smallest (negative) one
MaxExp == 4
\* largest multiplier given to Scalar * field element
MaxScalar == 6

I64Min == -(2 ^ (IntBits - 1))

(***************************************************************************)
(* Outcomes.                                                               *)
(***************************************************************************)
Ok(v) == [tag |-> "Ok", val |-> <<v>>]
Err(kind) == [tag |-> kind, val |-> <<>>]
Panic == [tag |-> "Panic", val |-> <<>>]
Diverge == [tag |-> "Diverge", val |-> <<>>]
NoCall == [tag |-> "None", val |-> <<>>]

\* names of the calls that return a field element
FieldOps == {"new", "from_values", "add", "add_val_ref", "add_ref_ref",
             "sub", "sub_val_ref", "sub_ref_ref", "mul", "mul_val_ref",
             "mul_ref_ref", "div", "pow_mod", "scalar_mul", "scalar_mul_ref"}

IsOk(r) == r.tag = "Ok"
Val(r) == r.val[1]

\* the ? operator / unwinding: continue with the value, or pass the failure on
Try(r, f(_)) == IF IsOk(r) THEN f(Val(r)) ELSE r

\* Result::unwrap / Result::expect: a failure result aborts
Unwrapped(r) == IF r.tag \in {"Ok", "Panic", "Diverge"} THEN r ELSE Panic

(***************************************************************************)
(* BigInt arithmetic of num-bigint.                                        *)
(***************************************************************************)
\* BigInt % : truncated remainder, the sign follows the dividend
Rem(a, m) == IF a >= 0 THEN a % m ELSE -((-a) % m)

\* BigInt::modpow for exponent >= 0 and modulus > 0: result in [0, m)
RECURSIVE modpow(_, _, _)
modpow(base, exp, m) ==
    IF exp = 0 THEN 1 % m
    ELSE LET half == modpow(base, exp \div 2, m)
             sq == (half * half) % m
         IN  IF exp % 2 = 1 THEN (sq * (base % m)) % m ELSE sq

(***************************************************************************)
(* FieldElement                                                            *)
(***************************************************************************)
FE(num, prime) == [num |-> num, prime |-> prime]

from_values(num, prime) ==
    IF num >= prime \/ num < 0
    THEN Err("FieldNotInRange")
    ELSE Ok(FE(num, prime))

\* FieldElement::new takes i64: the failure branch formats `prime - 1`, which
\* overflows for prime = i64::MIN; an overflow-checking build aborts there,
\* a wrapping build returns the error.  The set of possible outcomes.
FieldElement_new(num, prime) ==
    IF num >= prime \/ num < 0
    THEN IF prime - 1 < I64Min
         THEN {Panic, Err("FieldNotInRange")}
         ELSE {Err("FieldNotInRange")}
    ELSE {Ok(FE(num, prime))}

FieldElement_eq(self, other) ==
    self.num = other.num /\ self.prime = other.prime

check_primes_skipped(self, other) == Ok(<<>>)

check_primes(self, other) ==
    IF self.prime # other.prime
    THEN Err("InvalidField")
    ELSE Ok(<<>>)

FieldElement_add(self, other) ==
    LET body(u) ==
            LET res == self.num + other.num
                num == Rem(res, self.prime)
            IN  Ok(FE(num, self.prime))
    IN  Try(check_primes(self, other), body)

\* `impl Add<&FieldElement> for FieldElement`
FieldElement_add_val_ref(self, other) ==
    LET body(u) ==
            LET res == self.num + other.num
                num == Rem(res, self.prime)
            IN  Ok(FE(num, self.prime))
    IN  Try(check_primes(self, other), body)

\* `impl Add<&FieldElement> for &FieldElement`
FieldElement_add_ref_ref(self, other) ==
    LET body(u) ==
            LET res == self.num + other.num
                num == Rem(res, self.prime)
            IN  Ok(FE(num, self.prime))
    IN  Try(check_primes(self, other), body)

FieldElement_sub_nofix(self, other) ==
    LET body(u) ==
            LET sub == self.num - other.num
                num == Rem(sub, self.prime)
            IN  Ok(FE(num, self.prime))
    IN  Try(check_primes(self, other), body)

FieldElement_sub(self, other) ==
    LET body(u) ==
            LET sub == self.num - other.num
                num == Rem(sub, self.prime)
            IN  Ok(FE(IF num < 0 THEN num + self.prime ELSE num, self.prime))
    IN  Try(check_primes(self, other), body)

\* `impl Sub<&FieldElement> for FieldElement`
FieldElement_sub_val_ref(self, other) ==
    LET body(u) ==
            LET sub == self.num - other.num
                num == Rem(sub, self.prime)
            IN  Ok(FE(IF num < 0 THEN num + self.prime ELSE num, self.prime))
    IN  Try(check_primes(self, other), body)

\* `impl Sub<&FieldElement> for &FieldElement`
FieldElement_sub_ref_ref(self, other) ==
    LET body(u) ==
            LET sub == self.num - other.num
                num == Rem(sub, self.prime)
            IN  Ok(FE(IF num < 0 THEN num + self.prime ELSE num, self.prime))
    IN  Try(check_primes(self, other), body)

FieldElement_mul_noreduce(self, other) ==
    LET body(u) ==
            LET res == self.num * other.num
            IN  Ok(FE(res, self.prime))
    IN  Try(check_primes(self, other), body)

FieldElement_mul(self, other) ==
    LET body(u) ==
            LET res == self.num * other.num
                num == Rem(res, self.prime)
            IN  Ok(FE(num, self.prime))
    IN  Try(check_primes(self, other), body)

\* `impl Mul<&FieldElement> for FieldElement`
FieldElement_mul_val_ref(self, other) ==
    LET body(u) ==
            LET res == self.num * other.num
                num == Rem(res, self.prime)
            IN  Ok(FE(num, self.prime))
    IN  Try(check_primes(self, other), body)

\* `impl Mul<&FieldElement> for &FieldElement`
FieldElement_mul_ref_ref(self, other) ==
    LET body(u) ==
            LET res == self.num * other.num
                num == Rem(res, self.prime)
            IN  Ok(FE(num, self.prime))
    IN  Try(check_primes(self, other), body)

FieldElement_div_exp_off(self, other) ==
    IF self.prime # other.prime
    THEN Err("InvalidField")
    ELSE LET exp == self.prime - 1
         IN  IF exp < 0
             THEN Panic
             ELSE Ok(FE(Rem(self.num * modpow(other.num, exp, self.prime),
                            self.prime),
                        self.prime))

\* modpow aborts on a negative exponent: prime - 2 < 0 when prime = 1
FieldElement_div(self, other) ==
    IF self.prime # other.prime
    THEN Err("InvalidField")
    ELSE LET exp == self.prime - 2
         IN  IF exp < 0
             THEN Panic
             ELSE Ok(FE(Rem(self.num * modpow(other.num, exp, self.prime),
                            self.prime),
                        self.prime))

RECURSIVE pow_mod_normalize_by_prime(_, _)
pow_mod_normalize_by_prime(n, prime) ==
    IF n < 0 THEN pow_mod_normalize_by_prime(n + prime, prime) ELSE n

\* the loop `while n < 0 { n += prime - 1 }` never ends when prime = 1
RECURSIVE pow_mod_normalize(_, _)
pow_mod_normalize(n, prime) ==
    IF n < 0 THEN pow_mod_normalize(n + (prime - 1), prime) ELSE n

pow_mod(self, exponent) ==
    IF exponent < 0 /\ self.prime - 1 <= 0
    THEN Diverge
    ELSE LET n == pow_mod_normalize(exponent, self.prime)
             num == modpow(self.num, n, self.prime)
         IN  Unwrapped(from_values(num, self.prime))

(***************************************************************************)
(* Scalar * field element: binary expansion (scalar.rs)                    *)
(***************************************************************************)
\* coef0 & 1 on a positive coef0
bitand_one(coef0) == coef0 % 2
\* coef0 >>= 1 on a positive coef0
shr_one(coef0) == coef0 \div 2

\* the while loop of `impl Mul<&F> for Scalar`
RECURSIVE Scalar_mul_loop(_, _, _)
Scalar_mul_loop(coef0, current0, result0) ==
    IF coef0 > 0
    THEN LET new_result == IF bitand_one(coef0) = 1
                           THEN FieldElement_add(result0, current0)
                           ELSE Ok(result0)
             new_current == FieldElement_add(current0, current0)
         IN  IF ~IsOk(new_result) THEN new_result
             ELSE IF ~IsOk(new_current) THEN new_current
             ELSE Scalar_mul_loop(shr_one(coef0), Val(new_current), Val(new_result))
    ELSE Ok(result0)

Scalar_mul_coef_n(n, self) ==
    LET coef0 == n
        current0 == self
    IN  Try(from_values(self.num, self.prime),
            LAMBDA result0 : Scalar_mul_loop(coef0, current0, result0))

Scalar_mul(n, self) ==
    LET coef0 == n - 1
        current0 == self
    IN  Try(from_values(self.num, self.prime),
            LAMBDA result0 : Scalar_mul_loop(coef0, current0, result0))

\* the while loop of `impl Mul<&F> for &Scalar`
RECURSIVE Scalar_mul_ref_loop(_, _, _)
Scalar_mul_ref_loop(coef0, current0, result0) ==
    IF coef0 > 0
    THEN LET new_result == IF bitand_one(coef0) = 1
                           THEN FieldElement_add(result0, current0)
                           ELSE Ok(result0)
             new_current == FieldElement_add(current0, current0)
         IN  IF ~IsOk(new_result) THEN new_result
             ELSE IF ~IsOk(new_current) THEN new_current
             ELSE Scalar_mul_ref_loop(shr_one(coef0), Val(new_current),
                                      Val(new_result))
    ELSE Ok(result0)

Scalar_mul_ref(n, self) ==
    LET coef0 == n - 1
        current0 == self
    IN  Try(from_values(self.num, self.prime),
            LAMBDA result0 : Scalar_mul_ref_loop(coef0, current0, result0))

(***************************************************************************)
(* Point<F> (point/point.rs).  Option<F> is a sequence of length 0 or 1.   *)
(***************************************************************************)
None == <<>>
Some(v) == <<v>>

Pt(a, b, x, y) == [a |-> a, b |-> b, x |-> x, y |-> y]

\* x^3 + a*x + b, evaluated inside the closure of Point::new
Point_new_equation_no_b(a, b, x_value) ==
    Try(FieldElement_mul(a, x_value),
        LAMBDA ax : Try(pow_mod(x_value, 3),
                        LAMBDA x3 : FieldElement_add(x3, ax)))

Point_new_equation(a, b, x_value) ==
    Try(FieldElement_mul(a, x_value),
        LAMBDA ax : Try(pow_mod(x_value, 3),
                        LAMBDA x3 : Try(FieldElement_add(x3, ax),
                                        LAMBDA t : FieldElement_add(t, b))))

Point_new(a, b, x, y) ==
    IF x = None \/ y = None
    THEN Ok(Pt(a, b, None, None))
    ELSE LET y_squared == pow_mod(y[1], 2)
             equation == Unwrapped(Point_new_equation(a, b, x[1]))
         IN  Try(y_squared,
                 LAMBDA lhs_v : Try(equation,
                     LAMBDA rhs_v :
                         IF ~FieldElement_eq(lhs_v, rhs_v)
                         THEN Err("PointNotOnTheCurve")
                         ELSE Ok(Pt(a, b, x, y))))

is_additive_inverse(self, other) ==
    self.x = other.x /\ self.y # other.y

is_on_vertical_line_never(self) == FALSE

is_on_vertical_line(self) ==
    IF self.y # None /\ self.x # None
    THEN self.y[1].num = 0
    ELSE FALSE

check_points_on_the_curve(self, other) ==
    IF self.a # other.a /\ self.b # other.b
    THEN Err("PointNotOnTheCurve")
    ELSE Ok(<<>>)

Point_eq(self, other) ==
    self.x = other.x /\ self.y = other.y /\ self.a = other.a /\ self.b = other.b

\* `fn ne(&self, other) { self != other }`: `!=` on the two references is
\* this very ne, so the call recurses without end; the build either runs out
\* of stack and aborts or, with the tail call turned into a jump, loops
Point_ne(self, other) == {Panic, Diverge}

Point_add_distinct_x_no_x2(self, other) ==
    LET x1 == self.x[1]
        y1 == self.y[1]
        x2 == other.x[1]
        y2 == other.y[1]
        slope == Try(FieldElement_sub(y2, y1),
                     LAMBDA dy : Try(FieldElement_sub(x2, x1),
                                     LAMBDA dx : FieldElement_div(dy, dx)))
        x3 == Try(slope,
                  LAMBDA s : Try(pow_mod(s, 2),
                      LAMBDA s2 : FieldElement_sub(s2, x1)))
        y3 == Try(slope,
                  LAMBDA s : Try(x3,
                      LAMBDA vx3 : Try(FieldElement_sub(x1, vx3),
                          LAMBDA d : Try(FieldElement_mul(s, d),
                              LAMBDA m : FieldElement_sub(m, y1)))))
    IN  Try(x3, LAMBDA vx3 : Try(y3,
            LAMBDA vy3 : Point_new(self.a, self.b, Some(vx3), Some(vy3))))

\* `impl Add for Point<F>`, the branch `self.x != other.x`
Point_add_distinct_x(self, other) ==
    LET x1 == self.x[1]
        y1 == self.y[1]
        x2 == other.x[1]
        y2 == other.y[1]
        slope == Try(FieldElement_sub(y2, y1),
                     LAMBDA dy : Try(FieldElement_sub(x2, x1),
                                     LAMBDA dx : FieldElement_div(dy, dx)))
        x3 == Try(slope,
                  LAMBDA s : Try(pow_mod(s, 2),
                      LAMBDA s2 : Try(FieldElement_sub(s2, x1),
                          LAMBDA t : FieldElement_sub(t, x2))))
        y3 == Try(slope,
                  LAMBDA s : Try(x3,
                      LAMBDA vx3 : Try(FieldElement_sub(x1, vx3),
                          LAMBDA d : Try(FieldElement_mul(s, d),
                              LAMBDA m : FieldElement_sub(m, y1)))))
    IN  Try(x3, LAMBDA vx3 : Try(y3,
            LAMBDA vy3 : Point_new(self.a, self.b, Some(vx3), Some(vy3))))

Point_add_same_unvalidated(self) ==
    LET x1 == self.x[1]
        y1 == self.y[1]
        quotient == Try(pow_mod(x1, 2),
                        LAMBDA sq : Try(FieldElement_add(sq, self.a),
                                        LAMBDA t : Scalar_mul(3, t)))
        dividend == Scalar_mul(2, y1)
        s == Try(quotient,
                 LAMBDA q : Try(dividend, LAMBDA d : FieldElement_div(q, d)))
        x3 == Try(s,
                  LAMBDA vs : Try(pow_mod(vs, 2),
                      LAMBDA s2 : Try(Scalar_mul(2, x1),
                          LAMBDA tx : FieldElement_sub(s2, tx))))
        y3 == Try(s,
                  LAMBDA vs : Try(x3,
                      LAMBDA vx3 : Try(FieldElement_sub(x1, vx3),
                          LAMBDA d : Try(FieldElement_mul(vs, d),
                              LAMBDA m : FieldElement_sub(m, y1)))))
    IN  Try(x3, LAMBDA vx3 : Try(y3,
            LAMBDA vy3 : Ok(Pt(self.a, self.b, Some(vx3), Some(vy3)))))

\* `impl Add for Point<F>`, the branch `self == other`
Point_add_same(self) ==
    LET x1 == self.x[1]
        y1 == self.y[1]
        quotient == Try(pow_mod(x1, 2),
                        LAMBDA sq : Try(FieldElement_add(sq, self.a),
                                        LAMBDA t : Scalar_mul(3, t)))
        dividend == Scalar_mul(2, y1)
        s == Try(quotient,
                 LAMBDA q : Try(dividend, LAMBDA d : FieldElement_div(q, d)))
        x3 == Try(s,
                  LAMBDA vs : Try(pow_mod(vs, 2),
                      LAMBDA s2 : Try(Scalar_mul(2, x1),
                          LAMBDA tx : FieldElement_sub(s2, tx))))
        y3 == Try(s,
                  LAMBDA vs : Try(x3,
                      LAMBDA vx3 : Try(FieldElement_sub(x1, vx3),
                          LAMBDA d : Try(FieldElement_mul(vs, d),
                              LAMBDA m : FieldElement_sub(m, y1)))))
    IN  Try(x3, LAMBDA vx3 : Try(y3,
            LAMBDA vy3 : Point_new(self.a, self.b, Some(vx3), Some(vy3))))

\* the `return` that `impl Add for Point<F>` leaves by
Point_add_branch(self, other) ==
    IF ~IsOk(check_points_on_the_curve(self, other)) THEN "check"
    ELSE IF self.x = None THEN "identity_left"
    ELSE IF other.x = None THEN "identity_right"
    ELSE IF is_additive_inverse(self, other) THEN "additive_inverse"
    ELSE IF self.x # other.x THEN "distinct_x"
    ELSE IF Point_eq(self, other) /\ is_on_vertical_line(self)
         THEN "vertical_tangent"
    ELSE IF Point_eq(self, other) THEN "doubling"
    ELSE "fallback"

\* the divisor of the slope that `impl Add for Point<F>` evaluates: x2 - x1
\* in the branch `self.x != other.x`, Scalar(2) * y1 in the branch
\* `self == other`, none elsewhere
Point_add_divisor(self, other) ==
    IF Point_add_branch(self, other) = "distinct_x"
    THEN FieldElement_sub(other.x[1], self.x[1])
    ELSE IF Point_add_branch(self, other) = "doubling"
    THEN Scalar_mul(2, self.y[1])
    ELSE NoCall

Point_add_identity_lost(self, other) ==
    IF ~IsOk(check_points_on_the_curve(self, other))
    THEN check_points_on_the_curve(self, other)
    ELSE IF self.x = None THEN Ok(self)
    ELSE IF other.x = None THEN Ok(self)
    ELSE IF is_additive_inverse(self, other)
         THEN Point_new(self.a, self.b, self.x, self.y)
    ELSE IF self.x # other.x THEN Point_add_distinct_x(self, other)
    ELSE IF Point_eq(self, other) /\ is_on_vertical_line(self)
         THEN Point_new(self.a, self.b, None, None)
    ELSE IF Point_eq(self, other) THEN Point_add_same(self)
    ELSE Err("PointNotOnTheCurve")

\* `impl Add for Point<F>` (operands by value)
Point_add(self, other) ==
    IF ~IsOk(check_points_on_the_curve(self, other))
    THEN check_points_on_the_curve(self, other)
    ELSE IF self.x = None THEN Ok(other)
    ELSE IF other.x = None THEN Ok(self)
    ELSE IF is_additive_inverse(self, other)
         THEN Point_new(self.a, self.b, self.x, self.y)
    ELSE IF self.x # other.x THEN Point_add_distinct_x(self, other)
    ELSE IF Point_eq(self, other) /\ is_on_vertical_line(self)
         THEN Point_new(self.a, self.b, None, None)
    ELSE IF Point_eq(self, other) THEN Point_add_same(self)
    ELSE Err("PointNotOnTheCurve")

\* `impl Add<&Point<F>> for &Point<F>`, the branch `self.x != other.x`
Point_add_ref_distinct_x(self, other) ==
    LET x1 == self.x[1]
        y1 == self.y[1]
        x2 == other.x[1]
        y2 == other.y[1]
        slope == Try(FieldElement_sub(y2, y1),
                     LAMBDA dy : Try(FieldElement_sub(x2, x1),
                                     LAMBDA dx : FieldElement_div(dy, dx)))
        x3 == Try(slope,
                  LAMBDA s : Try(pow_mod(s, 2),
                      LAMBDA s2 : Try(FieldElement_sub(s2, x1),
                          LAMBDA t : FieldElement_sub(t, x2))))
        y3 == Try(slope,
                  LAMBDA s : Try(x3,
                      LAMBDA vx3 : Try(FieldElement_sub(x1, vx3),
                          LAMBDA d : Try(FieldElement_mul(s, d),
                              LAMBDA m : FieldElement_sub(m, y1)))))
    IN  Try(x3, LAMBDA vx3 : Try(y3,
            LAMBDA vy3 : Point_new(self.a, self.b, Some(vx3), Some(vy3))))

\* `impl Add<&Point<F>> for &Point<F>`, the branch `*self == *other`
Point_add_ref_same(self) ==
    LET x1 == self.x[1]
        y1 == self.y[1]
        quotient == Try(pow_mod(x1, 2),
                        LAMBDA sq : Try(FieldElement_add(sq, self.a),
                                        LAMBDA t : Scalar_mul(3, t)))
        dividend == Scalar_mul(2, y1)
        s == Try(quotient,
                 LAMBDA q : Try(dividend, LAMBDA d : FieldElement_div(q, d)))
        x3 == Try(s,
                  LAMBDA vs : Try(pow_mod(vs, 2),
                      LAMBDA s2 : Try(Scalar_mul(2, x1),
                          LAMBDA tx : FieldElement_sub(s2, tx))))
        y3 == Try(s,
                  LAMBDA vs : Try(x3,
                      LAMBDA vx3 : Try(FieldElement_sub(x1, vx3),
                          LAMBDA d : Try(FieldElement_mul(vs, d),
                              LAMBDA m : FieldElement_sub(m, y1)))))
    IN  Try(x3, LAMBDA vx3 : Try(y3,
            LAMBDA vy3 : Point_new(self.a, self.b, Some(vx3), Some(vy3))))

\* `impl Add<&Point<F>> for &Point<F>` (operands by reference)
Point_add_ref(self, other) ==
    IF ~IsOk(check_points_on_the_curve(self, other))
    THEN check_points_on_the_curve(self, other)
    ELSE IF self.x = None THEN Ok(other)
    ELSE IF other.x = None THEN Ok(self)
    ELSE IF is_additive_inverse(self, other)
         THEN Point_new(self.a, self.b, self.x, self.y)
    ELSE IF self.x # other.x THEN Point_add_ref_distinct_x(self, other)
    ELSE IF Point_eq(self, other) /\ is_on_vertical_line(self)
         THEN Point_new(self.a, self.b, None, None)
    ELSE IF Point_eq(self, other) THEN Point_add_ref_same(self)
    ELSE Err("PointNotOnTheCurve")

(***************************************************************************)
(* The fixed-modulus specialization (s256_field.rs, point/s256_point.rs).  *)
(* The secp256k1 prime does not fit the integers of the model checker: the *)
(* wrappers are instantiated at the prime of the repository's test curve,  *)
(* y^2 = x^3 + 7 over F_223, keeping a = 0 and b = 7.                      *)
(***************************************************************************)
TestPrime == 223

S256Field_new(num) == Unwrapped(from_values(num, TestPrime))

get_a == S256Field_new(0)
get_b == S256Field_new(7)

\* S256Point::new unwraps the result of Point::new
S256Point_new(x, y) ==
    Try(get_a, LAMBDA a : Try(get_b,
        LAMBDA b : Unwrapped(Point_new(a, b, x, y))))

\* `impl Add<&S256Point> for &S256Point`
S256Point_add_ref(self, other) == Point_add_ref(self, other)

\* what the caller holds while it holds no field element / no point
IdleFE == FE(0, 1)
IdlePoint == Pt(IdleFE, IdleFE, None, None)

(***************************************************************************)
(* The caller of the field arithmetic.                                     *)
(***************************************************************************)
\* raw inputs given to FieldElementTrait::from_values (BigInt)
RawInputs == (-1) .. (MaxModulus + 1)
\* raw inputs given to FieldElement::new (i64)
NewInputs == ((-1) .. (MaxModulus + 1)) \cup {I64Min}

\* the field elements a caller can construct
ValidFE ==
    {Val(r) : r \in {q \in {from_values(num, prime) :
                               num \in RawInputs, prime \in 1 .. MaxModulus} :
                     IsOk(q)}}

InitField ==
    /\ lhs \in ValidFE
    /\ rhs \in ValidFE
    /\ p1 = IdlePoint
    /\ p2 = IdlePoint
    /\ coef = 0
    /\ current = IdlePoint
    /\ result = IdlePoint
    /\ op = "init"
    /\ arg = <<>>
    /\ ret = NoCall

CallNew ==
    \E num \in NewInputs, prime \in NewInputs :
        /\ op' = "new"
        /\ arg' = <<num, prime>>
        /\ ret' \in FieldElement_new(num, prime)
        /\ UNCHANGED <<fieldHeld, pointHeld, loopVars>>

CallFromValues ==
    \E num \in RawInputs, prime \in RawInputs :
        /\ op' = "from_values"
        /\ arg' = <<num, prime>>
        /\ ret' = from_values(num, prime)
        /\ UNCHANGED <<fieldHeld, pointHeld, loopVars>>

CallAdd ==
    /\ op' = "add"
    /\ arg' = <<>>
    /\ ret' = FieldElement_add(lhs, rhs)
    /\ UNCHANGED <<fieldHeld, pointHeld, loopVars>>

CallSub ==
    /\ op' = "sub"
    /\ arg' = <<>>
    /\ ret' = FieldElement_sub(lhs, rhs)
    /\ UNCHANGED <<fieldHeld, pointHeld, loopVars>>

CallMul ==
    /\ op' = "mul"
    /\ arg' = <<>>
    /\ ret' = FieldElement_mul(lhs, rhs)
    /\ UNCHANGED <<fieldHeld, pointHeld, loopVars>>

CallAddValRef ==
    /\ op' = "add_val_ref"
    /\ arg' = <<>>
    /\ ret' = FieldElement_add_val_ref(lhs, rhs)
    /\ UNCHANGED <<fieldHeld, pointHeld, loopVars>>

CallAddRefRef ==
    /\ op' = "add_ref_ref"
    /\ arg' = <<>>
    /\ ret' = FieldElement_add_ref_ref(lhs, rhs)
    /\ UNCHANGED <<fieldHeld, pointHeld, loopVars>>

CallSubValRef ==
    /\ op' = "sub_val_ref"
    /\ arg' = <<>>
    /\ ret' = FieldElement_sub_val_ref(lhs, rhs)
    /\ UNCHANGED <<fieldHeld, pointHeld, loopVars>>

CallSubRefRef ==
    /\ op' = "sub_ref_ref"
    /\ arg' = <<>>
    /\ ret' = FieldElement_sub_ref_ref(lhs, rhs)
    /\ UNCHANGED <<fieldHeld, pointHeld, loopVars>>

CallMulValRef ==
    /\ op' = "mul_val_ref"
    /\ arg' = <<>>
    /\ ret' = FieldElement_mul_val_ref(lhs, rhs)
    /\ UNCHANGED <<fieldHeld, pointHeld, loopVars>>

CallMulRefRef ==
    /\ op' = "mul_ref_ref"
    /\ arg' = <<>>
    /\ ret' = FieldElement_mul_ref_ref(lhs, rhs)
    /\ UNCHANGED <<fieldHeld, pointHeld, loopVars>>

CallDiv ==
    /\ op' = "div"
    /\ arg' = <<>>
    /\ ret' = FieldElement_div(lhs, rhs)
    /\ UNCHANGED <<fieldHeld, pointHeld, loopVars>>

CallPowMod ==
    \E exponent \in (-MaxExp) .. MaxExp :
        /\ op' = "pow_mod"
        /\ arg' = <<exponent>>
        /\ ret' = pow_mod(lhs, exponent)
        /\ UNCHANGED <<fieldHeld, pointHeld, loopVars>>

CallScalarMul ==
    \E n \in (-1) .. MaxScalar :
        /\ op' = "scalar_mul"
        /\ arg' = <<n>>
        /\ ret' = Scalar_mul(n, lhs)
        /\ UNCHANGED <<fieldHeld, pointHeld, loopVars>>

CallScalarMulRef ==
    \E n \in (-1) .. MaxScalar :
        /\ op' = "scalar_mul_ref"
        /\ arg' = <<n>>
        /\ ret' = Scalar_mul_ref(n, lhs)
        /\ UNCHANGED <<fieldHeld, pointHeld, loopVars>>

\* the caller unwraps a successful result and keeps it as an operand
KeepLeft ==
    /\ op \in FieldOps
    /\ IsOk(ret)
    /\ lhs' = Val(ret)
    /\ op' = "keep"
    /\ arg' = <<>>
    /\ ret' = NoCall
    /\ UNCHANGED <<rhs, pointHeld, loopVars>>

KeepRight ==
    /\ op \in FieldOps
    /\ IsOk(ret)
    /\ rhs' = Val(ret)
    /\ op' = "keep"
    /\ arg' = <<>>
    /\ ret' = NoCall
    /\ UNCHANGED <<lhs, pointHeld, loopVars>>

NextField ==
    \/ CallNew
    \/ CallFromValues
    \/ CallAdd
    \/ CallSub
    \/ CallMul
    \/ CallAddValRef
    \/ CallAddRefRef
    \/ CallSubValRef
    \/ CallSubRefRef
    \/ CallMulValRef
    \/ CallMulRefRef
    \/ CallDiv
    \/ CallPowMod
    \/ CallScalarMul
    \/ CallScalarMulRef
    \/ KeepLeft
    \/ KeepRight

SpecField == InitField /\ [][NextField]_vars

(***************************************************************************)
(* The caller of Point::new: the four arguments are drawn at the start.    *)
(***************************************************************************)
\* largest prime modulus of the curves of the point specifications
MaxPrime == 7

IsPrime(p) == p >= 2 /\ \A d \in 2 .. (p - 1) : p % d # 0

\* field elements over the prime fields up to MaxPrime
PointFE == {e \in [num : 0 .. (MaxPrime - 1),
                   prime : {q \in 2 .. MaxPrime : IsPrime(q)}] :
               e.num < e.prime}

OptPointFE == {None} \cup {Some(e) : e \in PointFE}

InitPointNew ==
    /\ lhs = IdleFE
    /\ rhs = IdleFE
    /\ p1 = IdlePoint
    /\ p2 = IdlePoint
    /\ coef = 0
    /\ current = IdlePoint
    /\ result = IdlePoint
    /\ op = "init"
    /\ arg \in PointFE \X PointFE \X OptPointFE \X OptPointFE
    /\ ret = NoCall

CallPointNew ==
    /\ op = "init"
    /\ op' = "point_new"
    /\ ret' = Point_new(arg[1], arg[2], arg[3], arg[4])
    /\ UNCHANGED <<arg, fieldHeld, pointHeld, loopVars>>

NextPointNew == CallPointNew

SpecPointNew == InitPointNew /\ [][NextPointNew]_vars

(***************************************************************************)
(* The caller of point addition.                                           *)
(***************************************************************************)
\* the points a caller can construct over one prime field
ValidPoint ==
    {Val(r) : r \in {q \in {Point_new(a, b, x, y) :
                               a \in PointFE, b \in PointFE,
                               x \in OptPointFE, y \in OptPointFE} :
                     IsOk(q) /\ Val(q).a.prime = Val(q).b.prime}}

InitPoint ==
    /\ lhs = IdleFE
    /\ rhs = IdleFE
    /\ p1 \in ValidPoint
    /\ p2 \in ValidPoint
    /\ coef = 0
    /\ current = IdlePoint
    /\ result = IdlePoint
    /\ op = "init"
    /\ arg = <<>>
    /\ ret = NoCall

CallPointAdd ==
    /\ op' = "point_add"
    /\ arg' = <<>>
    /\ ret' = Point_add(p1, p2)
    /\ UNCHANGED <<fieldHeld, pointHeld, loopVars>>

CallPointAddRef ==
    /\ op' = "point_add_ref"
    /\ arg' = <<>>
    /\ ret' = Point_add_ref(p1, p2)
    /\ UNCHANGED <<fieldHeld, pointHeld, loopVars>>

CallPointNe ==
    \E r \in Point_ne(p1, p2) :
        /\ op' = "point_ne"
        /\ arg' = <<>>
        /\ ret' = r
        /\ UNCHANGED <<fieldHeld, pointHeld, loopVars>>

\* the caller unwraps a successful sum and keeps it as an operand
KeepPointLeft ==
    /\ op \in {"point_add", "point_add_ref"}
    /\ IsOk(ret)
    /\ p1' = Val(ret)
    /\ op' = "keep"
    /\ arg' = <<>>
    /\ ret' = NoCall
    /\ UNCHANGED <<p2, fieldHeld, loopVars>>

KeepPointRight ==
    /\ op \in {"point_add", "point_add_ref"}
    /\ IsOk(ret)
    /\ p2' = Val(ret)
    /\ op' = "keep"
    /\ arg' = <<>>
    /\ ret' = NoCall
    /\ UNCHANGED <<p1, fieldHeld, loopVars>>

NextPoint ==
    \/ CallPointAdd
    \/ CallPointAddRef
    \/ CallPointNe
    \/ KeepPointLeft
    \/ KeepPointRight

SpecPoint == InitPoint /\ [][NextPoint]_vars

(***************************************************************************)
(* Scalar * S256Point: the double-and-add loop, one action per iteration   *)
(* (point/s256_point.rs).                                                  *)
(***************************************************************************)
\* largest multiplier given to Scalar * point
MaxMultiplier == 20

\* the points S256Point::new accepts
S256Points ==
    {Val(r) : r \in {q \in {S256Point_new(x, y) :
                               x \in {Some(FE(n, TestPrime)) : n \in 0 .. (TestPrime - 1)},
                               y \in {Some(FE(n, TestPrime)) : n \in 0 .. (TestPrime - 1)}}
                             \cup {S256Point_new(None, None)} :
                     IsOk(q)}}

InitS256 ==
    /\ lhs = IdleFE
    /\ rhs = IdleFE
    /\ p1 \in S256Points
    /\ p2 = IdlePoint
    /\ coef = 0
    /\ current = IdlePoint
    /\ result = IdlePoint
    /\ op = "init"
    /\ arg = <<>>
    /\ ret = NoCall

\* entry of `impl Mul<&S256Point> for Scalar`, up to the loop
S256MulEnter ==
    \E n \in 0 .. MaxMultiplier :
        /\ op = "init"
        /\ op' = IF IsOk(S256Point_new(None, None)) THEN "s256_mul_loop"
                                                     ELSE "s256_mul_done"
        /\ arg' = <<n>>
        /\ coef' = n
        /\ current' = p1
        /\ result' = IF IsOk(S256Point_new(None, None))
                     THEN Val(S256Point_new(None, None))
                     ELSE result
        /\ ret' = IF IsOk(S256Point_new(None, None))
                  THEN NoCall
                  ELSE S256Point_new(None, None)
        /\ UNCHANGED <<fieldHeld, pointHeld>>

\* one iteration of `while coef > zero`; a failing addition is unwrapped
S256MulStep ==
    /\ op = "s256_mul_loop"
    /\ coef > 0
    /\ LET new_result == IF bitand_one(coef) = 1
                         THEN Unwrapped(S256Point_add_ref(result, current))
                         ELSE Ok(result)
           new_current == Unwrapped(S256Point_add_ref(current, current))
       IN  IF IsOk(new_result) /\ IsOk(new_current)
           THEN /\ result' = Val(new_result)
                /\ current' = Val(new_current)
                /\ coef' = shr_one(coef)
                /\ UNCHANGED <<op, ret>>
           ELSE /\ op' = "s256_mul_done"
                /\ ret' = IF IsOk(new_result) THEN new_current ELSE new_result
                /\ UNCHANGED loopVars
    /\ UNCHANGED <<arg, fieldHeld, pointHeld>>

\* the loop is left and Ok(result) returned
S256MulReturn ==
    /\ op = "s256_mul_loop"
    /\ ~(coef > 0)
    /\ op' = "s256_mul_done"
    /\ ret' = Ok(result)
    /\ UNCHANGED <<arg, fieldHeld, pointHeld, loopVars>>

NextS256 ==
    \/ S256MulEnter
    \/ S256MulStep
    \/ S256MulReturn

SpecS256 == InitS256 /\ [][NextS256]_vars

(***************************************************************************)
(* Properties.                                                             *)
(***************************************************************************)
ArithOps == FieldOps \ {"new", "from_values"}
PointAdds == {"point_add", "point_add_ref"}

InRange(e) == 0 <= e.num /\ e.num < e.prime

\* C1: every field element the caller holds, and every field element a
\* successful add, sub, mul, div, pow_mod or Scalar multiply returns, has
\* 0 <= value < modulus.
C1_RangeInvariant ==
    /\ InRange(lhs)
    /\ InRange(rhs)
    /\ (op \in ArithOps /\ IsOk(ret)) => InRange(Val(ret))

\* a subtraction whose raw remainder is negative, on a kept operand
C1_Witness ==
    /\ op = "sub"
    /\ IsOk(ret)
    /\ lhs.num < rhs.num
    /\ Val(ret).num = lhs.num - rhs.num + lhs.prime

\* C2: add, sub, mul and div of two field elements return InvalidField (and
\* no value) when the moduli differ, and never InvalidField when they are
\* equal.
C2_CrossField ==
    op \in {"add", "sub", "mul", "div"} =>
        /\ lhs.prime # rhs.prime => ret = Err("InvalidField")
        /\ lhs.prime = rhs.prime => ret.tag # "InvalidField"

C2_Witness ==
    /\ op = "mul"
    /\ lhs.prime # rhs.prime
    /\ ret = Err("InvalidField")

\* C3: FieldElement::new and from_values fail with FieldNotInRange exactly
\* when value < 0 or value >= modulus, and otherwise return the element
\* holding the given value and modulus.
C3_ConstructContract ==
    op \in {"new", "from_values"} =>
        IF arg[1] < 0 \/ arg[1] >= arg[2]
        THEN ret = Err("FieldNotInRange")
        ELSE ret = Ok(FE(arg[1], arg[2]))

SameCurve(p, q) == p.a = q.a /\ p.b = q.b
Infinity(p) == Pt(p.a, p.b, None, None)

\* C4: the sum of two finite points of one curve with equal x and different
\* y is the point at infinity.
C4_AdditiveInverse ==
    (/\ op \in PointAdds
     /\ SameCurve(p1, p2)
     /\ p1.x # None
     /\ p2.x # None
     /\ p1.x = p2.x
     /\ p1.y # p2.y) => ret = Ok(Infinity(p1))

\* C5: P + O = P and O + P = P for the point at infinity O of the curve of
\* P, for the addition by value and the addition by reference.
C5_GroupIdentity ==
    (op \in PointAdds /\ SameCurve(p1, p2)) =>
        /\ p2.x = None => ret = Ok(p1)
        /\ p1.x = None => ret = Ok(p2)

C5_Witness ==
    /\ op \in PointAdds
    /\ SameCurve(p1, p2)
    /\ p1.x = None
    /\ p2.x # None
    /\ ret = Ok(p2)

\* C6: for two points of one curve P + Q and Q + P both succeed with equal
\* points, or both fail.
C6_Commutative ==
    (op \in PointAdds /\ SameCurve(p1, p2)) =>
        LET swapped == IF op = "point_add" THEN Point_add(p2, p1)
                                           ELSE Point_add_ref(p2, p1)
        IN  \/ IsOk(ret) /\ IsOk(swapped) /\ Point_eq(Val(ret), Val(swapped))
            \/ ~IsOk(ret) /\ ~IsOk(swapped)

\* C7: the sum of two points whose coefficients a differ, or whose
\* coefficients b differ, fails with PointNotOnTheCurve.
C7_SameCurveRequired ==
    (op \in PointAdds /\ (p1.a # p2.a \/ p1.b # p2.b)) =>
        ret = Err("PointNotOnTheCurve")

\* y^2 = x^3 + a*x + b over the integers modulo p
OnCurve(a, b, x, y, p) ==
    (y * y) % p = (x * x * x + a * x + b) % p

\* C8: Point::new with both coordinates present, all four field elements over
\* one modulus, succeeds exactly when y^2 = x^3 + a*x + b in that field and
\* fails with PointNotOnTheCurve otherwise; with both coordinates absent it
\* returns the point at infinity.
C8_PointNew ==
    op = "point_new" =>
        LET a == arg[1]
            b == arg[2]
            x == arg[3]
            y == arg[4]
        IN  /\ (x = None /\ y = None) => ret = Ok(Pt(a, b, None, None))
            /\ (/\ x # None
                /\ y # None
                /\ a.prime = b.prime
                /\ x[1].prime = a.prime
                /\ y[1].prime = a.prime) =>
                   IF OnCurve(a.num, b.num, x[1].num, y[1].num, a.prime)
                   THEN ret = Ok(Pt(a, b, x, y))
                   ELSE ret = Err("PointNotOnTheCurve")

\* a point with b # 0 and a # 0 is accepted
C8_Witness ==
    /\ op = "point_new"
    /\ arg[3] # None
    /\ arg[4] # None
    /\ arg[1].num # 0
    /\ arg[2].num # 0
    /\ arg[3][1].num # 0
    /\ ret = Ok(Pt(arg[1], arg[2], arg[3], arg[4]))

\* C9: the multiplier 0 yields the identity: the zero element for a field
\* element, the point at infinity for a point.
C9_ZeroMultiplier ==
    /\ (op \in {"scalar_mul", "scalar_mul_ref"} /\ arg = <<0>>) =>
           ret = Ok(FE(0, lhs.prime))
    /\ (op = "s256_mul_done" /\ arg = <<0>>) => ret = Ok(Infinity(p1))

\* P + P + ... + P, n times, with the addition of the points
RECURSIVE RepeatedAdd(_, _)
RepeatedAdd(p, n) ==
    IF n = 1 THEN Ok(p)
    ELSE Try(RepeatedAdd(p, n - 1), LAMBDA acc : S256Point_add_ref(acc, p))

\* C10: for every point of the test curve and every multiplier 1..20 the
\* double-and-add loop returns the n-fold repeated sum.
C10_DoubleAndAdd ==
    (op = "s256_mul_done" /\ arg[1] >= 1) => ret = RepeatedAdd(p1, arg[1])

\* C11: for every multiplier n >= 1, Scalar * &e and &Scalar * &e succeed and
\* return the element (n * e.value) mod e.modulus over the same modulus.
C11_ScalarTimesField ==
    (op \in {"scalar_mul", "scalar_mul_ref"} /\ arg[1] >= 1) =>
        ret = Ok(FE((arg[1] * lhs.num) % lhs.prime, lhs.prime))

\* a multiplier with several bits, and a product that wraps around
C11_Witness ==
    /\ op = "scalar_mul_ref"
    /\ arg[1] >= 5
    /\ arg[1] * lhs.num > lhs.prime
    /\ IsOk(ret)
    /\ Val(ret).num # 0

\* C12: over a prime modulus, for b # 0, a / b succeeds and (a / b) * b = a.
C12_DivisionRoundTrip ==
    (/\ op = "div"
     /\ lhs.prime = rhs.prime
     /\ IsPrime(lhs.prime)
     /\ rhs.num # 0) =>
        /\ IsOk(ret)
        /\ FieldElement_mul(Val(ret), rhs) = Ok(lhs)

C12_Witness ==
    /\ op = "div"
    /\ lhs.prime = rhs.prime
    /\ IsPrime(lhs.prime)
    /\ rhs.num > 1
    /\ lhs.num # 0
    /\ IsOk(ret)
    /\ Val(ret).num # lhs.num

\* C13: a / z for the zero element z of the field of a is returned as an
\* error, never as a field element.
C13_DivisionByZero ==
    (op = "div" /\ lhs.prime = rhs.prime /\ IsPrime(lhs.prime) /\ rhs.num = 0) =>
        ret.tag \in {"FieldNotInRange", "InvalidField", "PointNotOnTheCurve"}

\* C14 as stated: over a prime modulus, for every x (x = 0 included) and
\* every integer k, x.pow_mod(k) = x.pow_mod(k + (modulus - 1)).
C14_FermatPeriodAll ==
    (op = "pow_mod" /\ IsPrime(lhs.prime)) =>
        ret = pow_mod(lhs, arg[1] + (lhs.prime - 1))

\* C14 as amended: the same, except for x = 0 with k = 0, where pow_mod(0)
\* is 1 and pow_mod(modulus - 1) is 0.
C14_FermatPeriod ==
    (op = "pow_mod" /\ IsPrime(lhs.prime) /\ ~(lhs.num = 0 /\ arg[1] = 0)) =>
        ret = pow_mod(lhs, arg[1] + (lhs.prime - 1))

\* a negative exponent that needs the normalisation loop more than once
C14_Witness ==
    /\ op = "pow_mod"
    /\ IsPrime(lhs.prime)
    /\ lhs.num > 1
    /\ arg[1] + (lhs.prime - 1) < 0
    /\ IsOk(ret)
    /\ Val(ret).num > 1

\* the inverse of d modulo the prime p, for d not divisible by p
Inverse(d, p) == CHOOSE s \in 0 .. (p - 1) : (s * d) % p = 1

\* the point (x, y) of the curve of p
Finite(p, x, y) ==
    Pt(p.a, p.b, Some(FE(x, p.a.prime)), Some(FE(y, p.a.prime)))

\* the double of the finite point p by the tangent rule
Doubled(p) ==
    LET q == p.a.prime
        x1 == p.x[1].num
        y1 == p.y[1].num
        s == ((3 * x1 * x1 + p.a.num) * Inverse(2 * y1, q)) % q
        x3 == (s * s - 2 * x1) % q
        y3 == (s * (x1 - x3) - y1) % q
    IN  Finite(p, x3, y3)

\* the sum of the finite points p, r of one curve by the chord rule
Chord(p, r) ==
    LET q == p.a.prime
        x1 == p.x[1].num
        y1 == p.y[1].num
        x2 == r.x[1].num
        y2 == r.y[1].num
        s == ((y2 - y1) * Inverse(x2 - x1, q)) % q
        x3 == (s * s - x1 - x2) % q
        y3 == (s * (x1 - x3) - y1) % q
    IN  Finite(p, x3, y3)

\* C15: on every curve (a # 0 included) P + P for a finite P with y1 # 0
\* succeeds with s = (3*x1^2 + a) / (2*y1), x3 = s^2 - 2*x1,
\* y3 = s*(x1 - x3) - y1 (stated over the odd primes, where 2*y1 has an
\* inverse).
C15_Doubling ==
    (/\ op \in PointAdds
     /\ Point_eq(p1, p2)
     /\ p1.x # None
     /\ p1.a.prime > 2
     /\ p1.y[1].num # 0) => ret = Ok(Doubled(p1))

\* C16: for finite points of one curve with x1 # x2 the sum succeeds with
\* s = (y2-y1)/(x2-x1), x3 = s^2 - x1 - x2, y3 = s*(x1-x3) - y1, by value and
\* by reference alike.
C16_DistinctX ==
    (/\ op \in PointAdds
     /\ SameCurve(p1, p2)
     /\ p1.x # None
     /\ p2.x # None
     /\ p1.x # p2.x) => ret = Ok(Chord(p1, p2))

C16_Witness ==
    /\ op = "point_add_ref"
    /\ SameCurve(p1, p2)
    /\ p1.x # None
    /\ p2.x # None
    /\ p1.x # p2.x
    /\ p1.a.num # 0
    /\ p2.x[1].num # 0
    /\ IsOk(ret)
    /\ Val(ret).x # None
    /\ Val(ret).x # p1.x
    /\ Val(ret).x # p2.x

\* C17: for operands of one modulus p, add, sub and mul return the canonical
\* representative in [0, p) of the sum, the difference (a - b + p when a < b)
\* and the product, with modulus p, in each of the three ownership variants.
C17_CanonicalArithmetic ==
    (lhs.prime = rhs.prime) =>
        /\ op \in {"add", "add_val_ref", "add_ref_ref"} =>
               ret = Ok(FE((lhs.num + rhs.num) % lhs.prime, lhs.prime))
        /\ op \in {"sub", "sub_val_ref", "sub_ref_ref"} =>
               ret = Ok(FE(IF lhs.num < rhs.num
                           THEN lhs.num - rhs.num + lhs.prime
                           ELSE lhs.num - rhs.num, lhs.prime))
        /\ op \in {"mul", "mul_val_ref", "mul_ref_ref"} =>
               ret = Ok(FE((lhs.num * rhs.num) % lhs.prime, lhs.prime))

C17_Witness ==
    /\ op = "sub_ref_ref"
    /\ lhs.prime = rhs.prime
    /\ lhs.num < rhs.num
    /\ IsOk(ret)
    /\ Val(ret).num = lhs.num - rhs.num + lhs.prime
    /\ Val(ret).num > rhs.num

\* C18: no fallible operation aborts: a construction that fails (here the
\* point constructor given coordinates whose modulus differs from that of a
\* and b) returns FieldNotInRange, InvalidField or PointNotOnTheCurve, never
\* a panic.
C18_NoAbort ==
    (op = "point_new") =>
        ret.tag \in {"Ok", "FieldNotInRange", "InvalidField",
                     "PointNotOnTheCurve"}

\* C19: two validly constructed points that pass the same-curve check leave
\* addition by one of the branches identity-left, identity-right,
\* additive-inverse, distinct-x, vertical-tangent or doubling, never by the
\* final PointNotOnTheCurve("Invalid").
C19_FallbackUnreachable ==
    (op \in PointAdds /\ IsOk(check_points_on_the_curve(p1, p2))) =>
        Point_add_branch(p1, p2) # "fallback"

\* the point is the point at infinity or its coordinates, over the modulus of
\* its own a and b, satisfy y^2 = x^3 + a*x + b
PointOnCurve(pt) ==
    \/ pt.x = None /\ pt.y = None
    \/ /\ pt.x # None
       /\ pt.y # None
       /\ pt.b.prime = pt.a.prime
       /\ pt.x[1].prime = pt.a.prime
       /\ pt.y[1].prime = pt.a.prime
       /\ OnCurve(pt.a.num, pt.b.num, pt.x[1].num, pt.y[1].num, pt.a.prime)

\* C20: after any sequence of constructions and additions every point held
\* and every point an addition returns is the point at infinity or lies on
\* the curve of its own (a, b); an addition whose computed coordinates are
\* off the curve returns PointNotOnTheCurve instead of a point.
C20_Closure ==
    /\ PointOnCurve(p1)
    /\ PointOnCurve(p2)
    /\ op \in PointAdds =>
           /\ ret.tag \in {"Ok", "PointNotOnTheCurve"}
           /\ IsOk(ret) => PointOnCurve(Val(ret))

C20_Witness ==
    /\ op = "point_add"
    /\ Point_add_branch(p1, p2) = "doubling"
    /\ p1.a.num # 0
    /\ p1.a.prime > 2
    /\ ret = Err("PointNotOnTheCurve")

\* C21: for a finite point P with y = 0, P + P is the point at infinity of
\* the curve of P, returned by the vertical-tangent branch, so the doubling
\* slope is not evaluated.
C21_VerticalTangent ==
    (/\ op \in PointAdds
     /\ Point_eq(p1, p2)
     /\ p1.x # None
     /\ p1.y[1].num = 0) =>
        /\ ret = Ok(Infinity(p1))
        /\ Point_add_branch(p1, p2) = "vertical_tangent"

C21_Witness ==
    /\ op = "point_add_ref"
    /\ Point_eq(p1, p2)
    /\ p1.x # None
    /\ p1.y[1].num = 0
    /\ p1.a.prime > 2
    /\ p1.a.num # 0
    /\ ret = Ok(Infinity(p1))

\* C22: pow_mod is total: for every constructed field element and every
\* integer exponent, negative ones included, the normalisation loop ends and
\* pow_mod returns a field element.
C22_PowModTotal ==
    (op = "pow_mod") => IsOk(ret) /\ InRange(Val(ret))

\* C23: evaluating p != q on two points terminates and returns the negation
\* of p == q, which holds iff x, y, a and b all match.
C23_NeAgreesWithEq ==
    (op = "point_ne") => ret = Ok(~Point_eq(p1, p2))

\* C24: for every prime modulus (2 included) and two valid points of one
\* curve, the divisor x2 - x1 of the distinct-x branch and the divisor 2*y1
\* of the doubling branch are not the zero element when the division is
\* evaluated.
C24_NoZeroDivisor ==
    (/\ op \in PointAdds
     /\ SameCurve(p1, p2)
     /\ IsPrime(p1.a.prime)
     /\ Point_add_branch(p1, p2) \in {"distinct_x", "doubling"}) =>
        /\ IsOk(Point_add_divisor(p1, p2))
        /\ Val(Point_add_divisor(p1, p2)).num # 0

====
